---- MODULE Spec2Model ----
(***************************************************************************)
(* Model of org_cryptomator_windows_keychain_WinHello_Native.cpp: the two  *)
(* JNI entry points setEncryptionKey (protect) and getEncryptionKey        *)
(* (unprotect), the helper deriveEncryptionKey, and the part of the        *)
(* Windows platform they call (KeyCredentialManager, SHA-256, AES-CBC with *)
(* PKCS7 padding), scaled down to 3-bit bytes and 2-byte cipher blocks.    *)
(***************************************************************************)
EXTENDS Integers, Sequences, FiniteSets, TLC

VARIABLES
    cred,         \* platform: key pair stored under s_winHelloKeyName, 0 = none
    provisioned,  \* platform: number of key pairs ever created under the name
    detSigner,    \* platform: TRUE iff RequestSignAsync is deterministic
    th,           \* per calling thread: the invocation in progress
    vault,        \* caller: the envelope it persisted, with what produced it
    calls,        \* number of invocations started so far
    callers       \* the threads that call into the library

vars == <<cred, provisioned, detSigner, th, vault, calls, callers>>

----------------------------------------------------------------------------
(* Bounds *)

MaxCalls == 2
MaxPlainLen == 2
MaxSaltLen == 1

(* uint8_t scaled to 3 bits; the AES block scaled from 16 bytes to 2. *)
Byte == 0..7
ByteMod == Cardinality(Byte)
BlockSize == 2

PlainBytes == {1, 2}
SaltBytes == {1}
Threads == {1, 2}

\* nullptr, told apart from every byte array
NULL == <<-1>>
\* the caller holds no envelope: vault is a sequence of at most one record
NoVault == <<>>

SeqsUpTo(S, n) == UNION {[1..k -> S] : k \in 0..n}

\* jbyteArray arguments a caller may pass (nullptr included)
Inputs == {NULL} \cup SeqsUpTo(PlainBytes, MaxPlainLen)
Salts == {NULL} \cup SeqsUpTo(SaltBytes, MaxSaltLen)
\* two concurrent callers pass fixed arguments (or the persisted envelope)
ConcInputs == {<<1>>}
ConcSalts == {<<>>, <<1>>}

----------------------------------------------------------------------------
(* Byte-array conversions *)

s_winHelloKeyName == "cryptomator_winhello"

jbyteArrayToVector(array) == IF array = NULL THEN <<>> ELSE array

\* An IBuffer is modelled as its byte sequence; a null buffer as NULL.
iBufferToVector(buffer) ==
    IF buffer = NULL \/ Len(buffer) = 0 THEN <<>> ELSE buffer

vectorToJbyteArray(vec) == vec

----------------------------------------------------------------------------
(* Platform: KeyCredentialStatus, signing, SHA-256, AES-CBC-PKCS7 *)

KeyCredentialStatus ==
    {"Success", "UnknownError", "NotFound", "UserCanceled",
     "UserPrefersPassword", "CredentialAlreadyExists", "SecurityDeviceLocked"}

\* The signature of a challenge under key pair kp; nonce is 0 for a
\* deterministic scheme and drawn per call by a randomized one.
Sign(kp, challenge, nonce) == <<kp, nonce>> \o challenge

RECURSIVE Digest(_)
Digest(s) ==
    IF s = <<>> THEN 5
    ELSE (Digest(SubSeq(s, 1, Len(s) - 1)) * 3 + s[Len(s)] * 7 + Len(s)) % (ByteMod * ByteMod)

\* HashAlgorithmProvider(Sha256).HashData: a fixed-length digest
HashData(s) == <<Digest(s) \div ByteMod, Digest(s) % ByteMod>>

RECURSIVE Xor(_, _)
Xor(a, b) ==
    IF a = 0 THEN b
    ELSE IF b = 0 THEN a
    ELSE (((a % 2) + (b % 2)) % 2) + 2 * Xor(a \div 2, b \div 2)

XorBlock(x, y) == [i \in 1..BlockSize |-> Xor(x[i], y[i])]

\* The block cipher: a four-round Feistel network keyed by the key bytes.
RoundF(x, k) == (x * x + 3 * k + 1) % ByteMod

RoundKeys(k) == <<k[1], k[2], (k[1] + 2 * k[2] + 1) % ByteMod, (3 * k[1] + k[2]) % ByteMod>>

RECURSIVE EncRounds(_, _, _)
EncRounds(rk, b, i) ==
    IF i > Len(rk) THEN b
    ELSE EncRounds(rk, <<b[2], Xor(b[1], RoundF(b[2], rk[i]))>>, i + 1)

RECURSIVE DecRounds(_, _, _)
DecRounds(rk, c, i) ==
    IF i = 0 THEN c
    ELSE DecRounds(rk, <<Xor(c[2], RoundF(c[1], rk[i])), c[1]>>, i - 1)

EncBlock(k, b) == EncRounds(RoundKeys(k), b, 1)

DecBlock(k, c) == DecRounds(RoundKeys(k), c, Len(RoundKeys(k)))

\* PKCS7: always pads, by 1..BlockSize bytes each holding the pad length
Pkcs7Pad(p) ==
    LET n == BlockSize - (Len(p) % BlockSize)
    IN  p \o [i \in 1..n |-> n]

Pkcs7Valid(p) ==
    /\ Len(p) > 0
    /\ p[Len(p)] \in 1..BlockSize
    /\ \A i \in (Len(p) - p[Len(p)] + 1)..Len(p) : p[i] = p[Len(p)]

Pkcs7Unpad(p) == SubSeq(p, 1, Len(p) - p[Len(p)])

Block(s, i) == SubSeq(s, (i - 1) * BlockSize + 1, i * BlockSize)

RECURSIVE CbcEnc(_, _, _)
CbcEnc(k, prev, p) ==
    IF p = <<>> THEN <<>>
    ELSE LET c == EncBlock(k, XorBlock(Block(p, 1), prev))
         IN  c \o CbcEnc(k, c, SubSeq(p, BlockSize + 1, Len(p)))

RECURSIVE CbcDec(_, _, _)
CbcDec(k, prev, c) ==
    IF c = <<>> THEN <<>>
    ELSE XorBlock(DecBlock(k, Block(c, 1)), prev)
         \o CbcDec(k, Block(c, 1), SubSeq(c, BlockSize + 1, Len(c)))

\* CryptographicEngine::Encrypt: AesCbcPkcs7 pads; plain AesCbc takes whole
\* blocks only and reports an error otherwise.
EncryptOk(alg, data) == alg = "AesCbcPkcs7" \/ Len(data) % BlockSize = 0

Encrypt(alg, key, data, iv) ==
    CbcEnc(key, iv, IF alg = "AesCbcPkcs7" THEN Pkcs7Pad(data) ELSE data)

\* CryptographicEngine::Decrypt reports an error for input that is not a
\* positive whole number of blocks or, with padding, whose padding does not
\* validate (padded ciphertext is never empty).
DecryptOk(alg, key, data, iv) ==
    /\ Len(data) > 0
    /\ Len(data) % BlockSize = 0
    /\ alg = "AesCbcPkcs7" => Pkcs7Valid(CbcDec(key, iv, data))

Decrypt(alg, key, data, iv) ==
    IF alg = "AesCbcPkcs7" THEN Pkcs7Unpad(CbcDec(key, iv, data))
    ELSE CbcDec(key, iv, data)

\* Statuses with which the platform can decline a create, open or sign request
FailureStatuses == KeyCredentialStatus \ {"Success", "CredentialAlreadyExists"}

\* KeyCredentialManager::RequestCreateAsync(name, option): the statuses it can
\* reply with in the current platform state
CreateReplies(option) ==
    (IF cred = 0 \/ option = "ReplaceExisting" THEN {"Success"}
     ELSE {"CredentialAlreadyExists"}) \cup FailureStatuses

\* KeyCredentialManager::OpenAsync(name)
OpenReplies == (IF cred # 0 THEN {"Success"} ELSE {}) \cup FailureStatuses

\* KeyCredential::RequestSignAsync(challenge)
SignReplies == {"Success"} \cup FailureStatuses

Nonces == IF detSigner THEN {0} ELSE {0, 1}

----------------------------------------------------------------------------
(* The invocation state of one thread *)

Idle ==
    [pc |-> "idle", op |-> "none", data |-> NULL, salt |-> NULL,
     handle |-> -1, signStatus |-> "none", signature |-> <<>>, key |-> <<>>,
     iv |-> <<>>, result |-> <<>>, outcome |-> "none", diag |-> <<>>,
     createCalls |-> 0, openCalls |-> 0, signCalls |-> 0, cause |-> "none"]

\* catch (const std::exception& e): print, return NewByteArray(0)
CatchStd(r, cause) ==
    [r EXCEPT !.pc = "done", !.outcome = "returned", !.result = <<>>,
              !.diag = @ \o <<"Error">>, !.cause = cause]

\* An exception no handler of the entry point catches leaves it
Escape(r, cause) ==
    [r EXCEPT !.pc = "done", !.outcome = "escaped", !.cause = cause]

\* if (!deriveEncryptionKey(saltVec, key)) throw std::runtime_error(...)
AfterDerive(r, ok, cause) ==
    IF ok THEN [r EXCEPT !.pc = "cipher"] ELSE CatchStd(r, cause)

\* catch (winrt::hresult_error const& ex) in deriveEncryptionKey
CatchHresult(r, cause) ==
    AfterDerive([r EXCEPT !.diag = @ \o <<"HresultMessage">>], FALSE, cause)

\* mutant: the credential is requested with ReplaceExisting
CreationOptionReplace == "ReplaceExisting"

\* line 71 on a null Credential: the call loads the vtable through a null
\* interface pointer.  The access violation ends the process, or, where the
\* build delivers structured exceptions to C++ handlers, unwinds as an
\* exception that neither handler of the file catches.
NullCallOutcomes == {"fault", "escaped"}

CreationOption == "FailIfExists"

\* mutant: the unpadded cipher mode is opened
algorithmNameNoPadding == "AesCbc"

algorithmName == "AesCbcPkcs7"

\* the iv argument of CryptographicEngine::Encrypt / Decrypt
EncryptIV(keyMaterial) == keyMaterial

\* mutant: decryption is given an all-zero iv
DecryptIVZero(keyMaterial) == [i \in 1..BlockSize |-> 0]

DecryptIV(keyMaterial) == keyMaterial

\* mutant: the message is printed for a cancellation as well
SignDiagAlways(status) == <<"SignFailed">>

\* lines 72-77: what deriveEncryptionKey prints for a failed signature
SignDiag(status) ==
    IF status # "UserCanceled" THEN <<"SignFailed">> ELSE <<>>

\* mutant: a cancelled signature is taken as a signature
SignProceedsOnCancel(status) == status \in {"Success", "UserCanceled"}

\* lines 72-77: a signature status other than Success ends the derivation
SignProceeds(status) == status = "Success"

----------------------------------------------------------------------------
(* Actions *)

\* The caller enters setEncryptionKey or getEncryptionKey: the arguments are
\* converted and init_apartment() runs, which can throw winrt::hresult_error.
Call(t) ==
    /\ t \in callers
    /\ calls < MaxCalls
    /\ th[t].pc = "idle"
    /\ \E op \in {"protect", "unprotect"} :
       \E data \in (IF callers = {t} THEN Inputs ELSE ConcInputs)
                   \cup (IF op = "unprotect" /\ vault # NoVault
                         THEN {vault[1].env, SubSeq(vault[1].env, 1, Len(vault[1].env) - 1)}
                         ELSE {}) :
       \E salt \in (IF callers = {t} THEN Salts ELSE ConcSalts) :
       \E initOk \in BOOLEAN :
          LET r == [Idle EXCEPT !.op = op, !.data = data, !.salt = salt]
          IN  th' = [th EXCEPT ![t] =
                        IF initOk THEN [r EXCEPT !.pc = "create"]
                        ELSE Escape(r, "init")]
    /\ calls' = calls + 1
    /\ UNCHANGED <<cred, provisioned, detSigner, vault, callers>>

\* lines 61-69: RequestCreateAsync(s_winHelloKeyName, FailIfExists).get()
RequestCreate(t) ==
    /\ th[t].pc = "create"
    /\ LET r == [th[t] EXCEPT !.createCalls = @ + 1]
       IN  \/ \E status \in CreateReplies(CreationOption) :
                IF status = "Success"
                THEN /\ cred' = provisioned + 1
                     /\ provisioned' = provisioned + 1
                     /\ th' = [th EXCEPT ![t] =
                                  [r EXCEPT !.pc = "sign", !.handle = provisioned + 1]]
                ELSE /\ UNCHANGED <<cred, provisioned>>
                     /\ th' = [th EXCEPT ![t] =
                                  IF status = "CredentialAlreadyExists"
                                  THEN [r EXCEPT !.pc = "open"]
                                  ELSE AfterDerive(
                                         [r EXCEPT !.diag = @ \o <<"CreateFailed">>],
                                         FALSE, "create")]
           \/ /\ th' = [th EXCEPT ![t] = CatchHresult(r, "create")]
              /\ UNCHANGED <<cred, provisioned>>
    /\ UNCHANGED <<detSigner, vault, calls, callers>>

\* line 65: result = OpenAsync(s_winHelloKeyName).get(); its status is not
\* examined, and a result without Success holds a null Credential.
Open(t) ==
    /\ th[t].pc = "open"
    /\ LET r == [th[t] EXCEPT !.openCalls = @ + 1]
       IN  \/ \E status \in OpenReplies :
                th' = [th EXCEPT ![t] =
                          [r EXCEPT !.pc = "sign",
                                    !.handle = IF status = "Success" THEN cred ELSE 0,
                                    !.cause = IF status = "Success" THEN "none" ELSE "open"]]
           \/ th' = [th EXCEPT ![t] = CatchHresult(r, "open")]
    /\ UNCHANGED <<cred, provisioned, detSigner, vault, calls, callers>>

\* lines 71-89 and 106-108: result.Credential().RequestSignAsync(challenge),
\* then the SHA-256 of the signature becomes the key.  Calling through a null
\* Credential is undefined (see NullCallOutcomes).
RequestSign(t) ==
    /\ th[t].pc = "sign"
    /\ LET r == [th[t] EXCEPT !.signCalls = @ + 1]
           challenge == jbyteArrayToVector(th[t].salt)
       IN  IF r.handle = 0
           THEN \E o \in NullCallOutcomes :
                    th' = [th EXCEPT ![t] = [r EXCEPT !.pc = "done", !.outcome = o]]
           ELSE \/ \E status \in SignReplies : \E nonce \in Nonces : \E hashOk \in BOOLEAN :
                     LET s == [r EXCEPT !.signStatus = status]
                         sig == Sign(r.handle, challenge, nonce)
                     IN  th' = [th EXCEPT ![t] =
                            IF ~SignProceeds(status)
                            THEN AfterDerive([s EXCEPT !.diag = @ \o SignDiag(status)],
                                             FALSE, "sign")
                            ELSE IF ~hashOk
                            THEN CatchHresult([s EXCEPT !.signature = sig], "hash")
                            ELSE AfterDerive(
                                   [s EXCEPT !.signature = sig,
                                             !.key = iBufferToVector(HashData(sig))],
                                   TRUE, "none")]
                \/ th' = [th EXCEPT ![t] =
                             CatchHresult([r EXCEPT !.signStatus = "threw"], "sign")]
    /\ UNCHANGED <<cred, provisioned, detSigner, vault, calls, callers>>

\* lines 110-117 and 144-151: AES-CBC-PKCS7 under the key, the key material
\* passed as the iv as well.  A platform error is a winrt::hresult_error,
\* which is no std::exception; only std::bad_alloc is.
Cipher(t) ==
    /\ th[t].pc = "cipher"
    /\ LET r == th[t]
           keyMaterial == r.key
           dataVec == jbyteArrayToVector(r.data)
           iv == IF r.op = "protect" THEN EncryptIV(keyMaterial) ELSE DecryptIV(keyMaterial)
           u == [r EXCEPT !.iv = iv]
           done(buf) == [u EXCEPT !.pc = "done", !.outcome = "returned",
                                  !.result = vectorToJbyteArray(iBufferToVector(buf))]
       IN  \/ th' = [th EXCEPT ![t] = Escape(r, "cipher")]
           \/ th' = [th EXCEPT ![t] = CatchStd(r, "cipher")]
           \/ /\ r.op = "protect"
              /\ th' = [th EXCEPT ![t] =
                           IF EncryptOk(algorithmName, dataVec)
                           THEN done(Encrypt(algorithmName, keyMaterial, dataVec, iv))
                           ELSE Escape(u, "encrypt")]
           \/ /\ r.op = "unprotect"
              /\ th' = [th EXCEPT ![t] =
                           IF DecryptOk(algorithmName, keyMaterial, dataVec, iv)
                           THEN done(Decrypt(algorithmName, keyMaterial, dataVec, iv))
                           ELSE Escape(u, "decrypt")]
    /\ UNCHANGED <<cred, provisioned, detSigner, vault, calls, callers>>

\* The entry point has returned (or been left by an exception); the caller
\* persists the first envelope it is given, with the arguments that made it.
Return(t) ==
    /\ th[t].pc = "done"
    /\ vault' = IF /\ vault = NoVault
                   /\ th[t].op = "protect"
                   /\ th[t].outcome = "returned"
                   /\ th[t].result # <<>>
                THEN <<[env |-> th[t].result,
                        plain |-> jbyteArrayToVector(th[t].data),
                        salt |-> jbyteArrayToVector(th[t].salt),
                        kp |-> th[t].handle]>>
                ELSE vault
    /\ th' = [th EXCEPT ![t] = Idle]
    /\ UNCHANGED <<cred, provisioned, detSigner, calls, callers>>

Init ==
    /\ cred = 0
    /\ provisioned = 0
    /\ detSigner \in BOOLEAN
    /\ th = [t \in Threads |-> Idle]
    /\ vault = NoVault
    /\ calls = 0
    /\ callers \in {{1}, Threads}

Next ==
    \E t \in Threads :
        \/ Call(t)
        \/ RequestCreate(t)
        \/ Open(t)
        \/ RequestSign(t)
        \/ Cipher(t)
        \/ Return(t)

Spec == Init /\ [][Next]_vars

----------------------------------------------------------------------------
(* Properties *)

Done(t) == th[t].pc = "done"
Succeeded(t) == Done(t) /\ th[t].outcome = "returned" /\ th[t].cause = "none"
saltVec(t) == jbyteArrayToVector(th[t].salt)
dataVec(t) == jbyteArrayToVector(th[t].data)

\* thread t was asked to unprotect the persisted envelope
UnprotectsVault(t) ==
    /\ th[t].op = "unprotect"
    /\ vault # NoVault
    /\ th[t].data = vault[1].env

\* steps of the chain at which the platform declined or threw
PlatformFailures == {"init", "create", "open", "sign", "hash", "cipher"}

\* C1: round trip.  With a signer deterministic in the challenge, an unprotect
\* of the envelope protect returned, under the same challenge, in which no
\* platform step fails, returns exactly the plaintext given to protect.
C1_RoundTrip ==
    \A t \in Threads :
        (/\ Done(t)
         /\ UnprotectsVault(t)
         /\ saltVec(t) = vault[1].salt
         /\ detSigner
         /\ th[t].cause \notin PlatformFailures)
        => /\ th[t].outcome = "returned"
           /\ th[t].result = vault[1].plain

C1_Witness ==
    \E t \in Threads :
        /\ Done(t)
        /\ UnprotectsVault(t)
        /\ saltVec(t) = vault[1].salt
        /\ detSigner
        /\ th[t].outcome = "returned"
        /\ Len(vault[1].plain) = BlockSize
        /\ th[t].result = vault[1].plain

\* C2: a failure at any step of the chain (credential create or open,
\* signing, key derivation, cipher setup, encrypt, decrypt) makes the entry
\* point return an empty array; nothing escapes it.
C2_FailureReturnsEmpty ==
    \A t \in Threads :
        (Done(t) /\ th[t].cause \in {"create", "open", "sign", "hash",
                                     "cipher", "encrypt", "decrypt"})
        => /\ th[t].outcome = "returned"
           /\ th[t].result = <<>>

\* C3: challenge sensitivity.  Unprotecting the persisted envelope under a
\* different challenge, once the key has been derived and the cipher set up,
\* ends in a decryption failure, never in a returned byte array.
C3_ChallengeSensitivity ==
    \A t \in Threads :
        (/\ Done(t)
         /\ UnprotectsVault(t)
         /\ saltVec(t) # vault[1].salt
         /\ detSigner
         /\ th[t].key # <<>>
         /\ th[t].cause \notin PlatformFailures)
        => th[t].cause = "decrypt"

\* C4: a cancelled signature makes the entry point return an empty array
\* with no diagnostic of deriveEncryptionKey; every other failed signature
\* (another status, or an error thrown) returns empty with such a diagnostic.
C4_CancellationPropagation ==
    \A t \in Threads :
        (Done(t) /\ th[t].signStatus \in FailureStatuses \cup {"threw"})
        => /\ th[t].outcome = "returned"
           /\ th[t].result = <<>>
           /\ (th[t].signStatus = "UserCanceled") = (th[t].diag = <<"Error">>)

C4_Witness ==
    \E t \in Threads :
        /\ Done(t)
        /\ th[t].signStatus = "UserCanceled"
        /\ th[t].result = <<>>
        /\ th[t].diag = <<"Error">>

\* C5: over every interleaving, the named credential is provisioned at most
\* once; every handle an invocation holds, every signature it obtained and
\* the persisted envelope belong to that one key pair.
C5_IdempotentCreation ==
    /\ provisioned <= 1
    /\ cred = provisioned
    /\ \A t \in Threads :
        /\ th[t].handle \in {-1, 0, cred}
        /\ th[t].signature # <<>> => th[t].signature[1] = cred
    /\ vault # NoVault => vault[1].kp = cred

C5_Witness ==
    \E t, u \in Threads :
        /\ t # u
        /\ th[t].pc = "sign" /\ th[t].openCalls = 0 /\ th[t].handle = cred
        /\ th[u].pc = "sign" /\ th[u].openCalls = 1 /\ th[u].handle = cred

\* C6: every encryption protect performs uses an iv that is not the key.
C6_FreshIV ==
    \A t \in Threads :
        (Done(t) /\ th[t].op = "protect" /\ th[t].iv # <<>>)
        => th[t].iv # th[t].key

\* C7: once creating or opening the credential has not succeeded, the
\* invocation requests no signature and returns an empty array.
C7_CredentialUnavailableIsFatal ==
    \A t \in Threads :
        th[t].cause \in {"create", "open"}
        => /\ th[t].signCalls = 0
           /\ Done(t)
           /\ th[t].outcome = "returned"
           /\ th[t].result = <<>>

\* C8: an invocation requests the credential at most once (one create, at
\* most one open after it) and a signature at most once, and a step that
\* failed or was cancelled ends it.
C8_NoRetries ==
    \A t \in Threads :
        /\ th[t].createCalls <= 1
        /\ th[t].openCalls <= th[t].createCalls
        /\ th[t].signCalls <= 1
        /\ th[t].cause # "none" => Done(t)

\* C9: the cipher step is reached only in an invocation that obtained the
\* credential, had the caller's challenge signed with success by it, and
\* holds as key the hash of exactly that signature.
C9_StepOrder ==
    \A t \in Threads :
        (th[t].pc = "cipher" \/ th[t].iv # <<>>)
        => /\ th[t].createCalls = 1
           /\ th[t].handle = cred /\ cred # 0
           /\ th[t].signCalls = 1
           /\ th[t].signStatus = "Success"
           /\ \E n \in {0, 1} : th[t].signature = Sign(th[t].handle, saltVec(t), n)
           /\ th[t].key = HashData(th[t].signature)

C9_Witness ==
    \E t \in Threads :
        /\ th[t].pc = "cipher"
        /\ calls = MaxCalls
        /\ th[t].openCalls = 1
        /\ saltVec(t) # <<>>
        /\ vault # NoVault /\ vault[1].salt = <<>>

\* C10 as stated: a successful protect or unprotect never returns an empty
\* array.
C10_EmptyMeansFailure ==
    \A t \in Threads : Succeeded(t) => th[t].result # <<>>

\* C10 amended: a successful protect never returns an empty array; a
\* successful unprotect returns one only for an envelope of at most one block.
C10_EmptyOnSuccessOnlyFromUnprotect ==
    \A t \in Threads :
        (Succeeded(t) /\ th[t].result = <<>>)
        => /\ th[t].op = "unprotect"
           /\ Len(dataVec(t)) <= BlockSize

C10_Witness ==
    \E t \in Threads :
        /\ Succeeded(t)
        /\ UnprotectsVault(t)
        /\ vault[1].plain = <<>>
        /\ th[t].result = <<>>

====
